---- MODULE Spec2Model ----
(***************************************************************************)
(* FamilyFoto: the AuthToken and User models.                              *)
(*                                                                         *)
(*   family_foto/models/auth_token.py   AuthToken.check / revoke /         *)
(*                                      create_token                       *)
(*   family_foto/models/user.py         User.set_password / check_password *)
(*                                      / get_media / share_all_with /     *)
(*                                      has_general_read_permission        *)
(*                                                                         *)
(* Time is the value of datetime.utcnow(), counted in seconds.  Strings    *)
(* are sequences of one-character strings.  The ORM relationship           *)
(* collections (User.files, UserSettings.share_all) are the in-session     *)
(* Python collections the methods read and write.                          *)
(***************************************************************************)
EXTENDS Integers, Sequences, FiniteSets

(* ------------------------------ bounds -------------------------------- *)

\* number of clock advances in a behaviour
MaxTicks == 2

\* number of AuthToken rows in a behaviour
MaxTokens == 2

\* number of User rows
NumUsers == 2

\* number of File rows
NumFiles == 2

\* longest list get_media may build before the model stops calling it
MaxMediaLen == 3

\* longest list handed to share_all_with
MaxShareList == 2

\* longest plaintext password
MaxPwLen == 1

(* ------------------------- program constants -------------------------- *)

\* create_token(expires_in: int = 3600)
DefaultExpiresIn == 3600

\* the NULL of a foreign key / a missing row
None == 0

(* ------------------------------- state -------------------------------- *)

VARIABLES
    now,            \* datetime.utcnow()
    tokens,         \* the AuthToken rows, by id: [token, expiration, user]
    issued,         \* per token: the `now` and `expires_in` of its create_token call
    revoked,        \* ids of the tokens revoke() has been called on
    settingsId,     \* per user: the id of its UserSettings row, None if it has none
    shareAll,       \* per user: UserSettings.share_all of its settings row
    files,          \* per user: the User.files relationship collection
    fileUser,       \* per file: the File.user column as stored when the file was added
    password_hash,  \* per user: User.password_hash, <<>> while NULL
    plain,          \* per user: the plaintext of the last set_password, <<>> if none
    op,             \* the last call: [name, self, arg]
    ret             \* what the last call returned or raised

vars == <<now, tokens, issued, revoked, settingsId, shareAll, files, fileUser,
          password_hash, plain, op, ret>>

tokenVars == <<tokens, issued, revoked>>
userVars  == <<settingsId, shareAll, files, fileUser>>
pwVars    == <<password_hash, plain>>

Users == 1..NumUsers
Files == 1..NumFiles

\* the values os.urandom/base64 may produce for a token string; the string is
\* opaque, one value stands for all
TokenStrings == {<<"r", "n", "d", "=">>}

\* the values of expires_in the callers pass
ExpiresIns == {0, 1, DefaultExpiresIn}

\* how far the clock moves between two calls
ClockSteps == {1, DefaultExpiresIn}

Range(s) == {s[i] : i \in 1..Len(s)}

Call(name, self, arg) == [name |-> name, self |-> self, arg |-> arg]

(* ----------------------------- AuthToken ------------------------------ *)

check_nonstrict(self, utcnow) == self.expiration >= utcnow

\* AuthToken.check: self.expiration > datetime.utcnow()
check(self, utcnow) == self.expiration > utcnow

revoke_late(self, utcnow) == [self EXCEPT !.expiration = utcnow + 1]

revoke_renew(self, utcnow) ==
    [self EXCEPT !.expiration = utcnow + DefaultExpiresIn]

\* AuthToken.revoke: self.expiration = datetime.utcnow()
revoke(self, utcnow) == [self EXCEPT !.expiration = utcnow]

create_token_expired(expires_in, utcnow, urandom) ==
    [token |-> urandom, expiration |-> utcnow, user |-> None]

create_token_late(expires_in, utcnow, urandom) ==
    [token |-> urandom, expiration |-> utcnow + expires_in + 2, user |-> None]

\* AuthToken.create_token: expiration = now + timedelta(seconds=expires_in)
create_token(expires_in, utcnow, urandom) ==
    [token |-> urandom, expiration |-> utcnow + expires_in, user |-> None]

TokenIds == 1..Len(tokens)

CreateToken ==
    /\ Len(tokens) < MaxTokens
    /\ \E expires_in \in ExpiresIns, urandom \in TokenStrings :
          /\ tokens' = Append(tokens, create_token(expires_in, now, urandom))
          /\ issued' = Append(issued, [at |-> now, expires_in |-> expires_in])
          /\ op' = Call("create_token", Len(tokens) + 1, expires_in)
          /\ ret' = Len(tokens) + 1
    /\ UNCHANGED <<now, revoked, userVars, pwVars>>

Check ==
    /\ \E id \in TokenIds :
          /\ op' = Call("check", id, None)
          /\ ret' = check(tokens[id], now)
    /\ UNCHANGED <<now, tokenVars, userVars, pwVars>>

Revoke ==
    /\ \E id \in TokenIds :
          /\ tokens' = [tokens EXCEPT ![id] = revoke(tokens[id], now)]
          /\ revoked' = revoked \cup {id}
          /\ op' = Call("revoke", id, None)
          /\ ret' = None
    /\ UNCHANGED <<now, issued, userVars, pwVars>>

\* the number of clock steps that lead to the time t
Ticks(t) == (t \div DefaultExpiresIn) + (t % DefaultExpiresIn)

\* the clock moves on between two calls, by a second or by an hour; it never
\* goes backwards
Tick ==
    /\ \E d \in ClockSteps :
          /\ Ticks(now + d) <= MaxTicks
          /\ now' = now + d
    /\ op' = Call("tick", None, None)
    /\ ret' = None
    /\ UNCHANGED <<tokenVars, userVars, pwVars>>

(* -------------------------- werkzeug.security ------------------------- *)

\* the characters of a plaintext password
PwChars == {"1", "2"}

\* the salts gen_salt may draw
Salts == {<<"x">>, <<"y">>}

HexDigits == <<"0", "1", "2", "3", "4", "5", "6", "7",
               "8", "9", "a", "b", "c", "d", "e", "f">>

CharCode(c) == IF c = "1" THEN 1 ELSE IF c = "2" THEN 2 ELSE 3

SaltCode(salt) == IF salt = <<"x">> THEN 0 ELSE 1

RECURSIVE SeqsUpTo(_, _)
SeqsUpTo(S, n) ==
    IF n = 0 THEN {<<>>}
    ELSE LET shorter == SeqsUpTo(S, n - 1)
         IN  shorter \cup {Append(q, x) : q \in shorter, x \in S}

Passwords == SeqsUpTo(PwChars, MaxPwLen) \ {<<>>}

\* the hex digest of the salted password: one digit for the length, one per
\* character; distinct passwords have distinct digests under the same salt
\* (the hash is taken to be collision-free)
hash_internal(salt, password) ==
    <<HexDigits[((Len(password) + SaltCode(salt)) % 16) + 1]>> \o
    [i \in 1..Len(password) |->
        HexDigits[((3 * CharCode(password[i]) + SaltCode(salt) + i) % 16) + 1]]

\* generate_password_hash: "method$salt$hash"
generate_password_hash(password, salt) ==
    <<"p", "b", "k", "d", "f", "2">> \o <<"$">> \o salt \o <<"$">> \o
    hash_internal(salt, password)

Count(s, c) == Cardinality({i \in 1..Len(s) : s[i] = c})

\* the position of the k-th occurrence of c in s
RECURSIVE Find(_, _, _, _)
Find(s, c, k, from) ==
    IF from > Len(s) THEN 0
    ELSE IF s[from] = c
         THEN IF k = 1 THEN from ELSE Find(s, c, k - 1, from + 1)
         ELSE Find(s, c, k, from + 1)

\* check_password_hash: split "method$salt$hash" at the first two "$" and
\* compare the hash of the password under that salt
check_password_hash(pwhash, password) ==
    IF Count(pwhash, "$") < 2 THEN FALSE
    ELSE LET d1 == Find(pwhash, "$", 1, 1)
             d2 == Find(pwhash, "$", 2, 1)
             salt == SubSeq(pwhash, d1 + 1, d2 - 1)
             hashval == SubSeq(pwhash, d2 + 1, Len(pwhash))
         IN  hash_internal(salt, password) = hashval

(* -------------------------------- User -------------------------------- *)

set_password_plain(password, salt) == password

\* User.set_password: self.password_hash = generate_password_hash(password)
set_password(password, salt) == generate_password_hash(password, salt)

\* User.check_password: check_password_hash(self.password_hash, password)
check_password(hash, password) == check_password_hash(hash, password)

SetPassword ==
    /\ \E self \in Users, password \in Passwords, salt \in Salts :
          /\ password_hash' = [password_hash EXCEPT ![self] = set_password(password, salt)]
          /\ plain' = [plain EXCEPT ![self] = password]
          /\ op' = Call("set_password", self,
                        [password |-> password, previous |-> plain[self]])
          /\ ret' = None
    /\ UNCHANGED <<now, tokenVars, userVars>>

\* check_password on a user whose password_hash is still NULL fails inside
\* check_password_hash (None has no count)
CheckPassword ==
    /\ \E self \in Users, password \in Passwords :
          /\ op' = Call("check_password", self, password)
          /\ ret' = IF password_hash[self] = <<>> THEN "AttributeError"
                    ELSE check_password(password_hash[self], password)
    /\ UNCHANGED <<now, tokenVars, userVars, pwVars>>

(* ---------------------------- UserSettings ---------------------------- *)

\* UserSettings.has_all_sharing: other_user is in share_all
has_all_sharing(share_all, other_user) == other_user \in share_all

\* UserSettings.share_all_photos_with: add other_user to share_all
share_all_photos_with(share_all, other_user) == share_all \cup {other_user}

\* UserSettings.revoke_sharing: remove other_user from share_all
revoke_sharing(share_all, other_user) == share_all \ {other_user}

(* ------------------------ User: sharing and media ---------------------- *)

\* the arguments of share_all_with: a single user, or a list of users
SingleUser(u) == [is_list |-> FALSE, user |-> u]
UserList(l) == [is_list |-> TRUE, users |-> l]
OtherUsers ==
    {SingleUser(u) : u \in Users} \cup
    {UserList(l) : l \in SeqsUpTo(Users, MaxShareList)}

\* if not isinstance(other_users, list): other_users = [other_users]
AsList(other_users) ==
    IF other_users.is_list THEN other_users.users ELSE <<other_users.user>>

\* for other_user in other_users: self.settings.share_all_photos_with(other_user)
RECURSIVE ShareEach(_, _)
ShareEach(share_all, other_users) ==
    IF other_users = <<>> THEN share_all
    ELSE ShareEach(share_all_photos_with(share_all, Head(other_users)),
                   Tail(other_users))

\* for revoked_user in revoked_users: self.settings.revoke_sharing(revoked_user)
RECURSIVE RevokeEach(_, _)
RevokeEach(share_all, revoked_users) ==
    IF revoked_users = {} THEN share_all
    ELSE LET revoked_user == CHOOSE u \in revoked_users : TRUE
         IN  RevokeEach(revoke_sharing(share_all, revoked_user),
                        revoked_users \ {revoked_user})

share_all_with_norevoke(settings, share_all, other_users) ==
    IF settings = None
    THEN [raised |-> "AttributeError", share_all |-> share_all]
    ELSE [raised |-> "", share_all |-> ShareEach(share_all, AsList(other_users))]

share_all_with_unchecked(settings, share_all, other_users) ==
    [raised |-> "", share_all |-> Range(AsList(other_users))]

\* User.share_all_with: the result is what the call raised ("" if nothing) and
\* the share_all it leaves
share_all_with(settings, share_all, other_users) ==
    IF settings = None
    THEN [raised |-> "AttributeError", share_all |-> share_all]
    ELSE LET list == AsList(other_users)
             shared == ShareEach(share_all, list)
             revoked_users == {user \in shared : user \notin Range(list)}
         IN  [raised |-> "", share_all |-> RevokeEach(shared, revoked_users)]

\* User.has_general_read_permission: self.settings.has_all_sharing(other_user)
has_general_read_permission(share_all, other_user) ==
    has_all_sharing(share_all, other_user)

\* the UserSettings rows (named by their owner) whose share_all holds self
SharedWith(self) ==
    {v \in Users : settingsId[v] # None /\ has_all_sharing(shareAll[v], self)}

\* the orders in which a query without ORDER BY may return the rows
Orders(S) ==
    {o \in SeqsUpTo(S, Cardinality(S)) : Len(o) = Cardinality(S) /\ Range(o) = S}

\* for user in user_shared:
\*     user_photos.extend(User.query.filter_by(id=user.id).first().files)
\* user is a UserSettings row, so user.id is the id of the settings row;
\* user_photos is the files collection of self, extended in place
RECURSIVE ExtendEach(_, _, _)
ExtendEach(fs, self, user_shared) ==
    IF user_shared = <<>> THEN fs
    ELSE LET user_id == settingsId[Head(user_shared)]
         IN  ExtendEach([fs EXCEPT ![self] = fs[self] \o fs[user_id]],
                        self, Tail(user_shared))

\* User.get_media: the files collections after the call; the call returns the
\* collection of self
get_media(fs, self, user_shared) == ExtendEach(fs, self, user_shared)

ShareAllWith ==
    /\ \E self \in Users, other_users \in OtherUsers :
          LET r == share_all_with(settingsId[self], shareAll[self], other_users)
          IN  /\ shareAll' = [shareAll EXCEPT ![self] = r.share_all]
              /\ op' = Call("share_all_with", self,
                            [users |-> Range(AsList(other_users)),
                             revokes |-> \E v \in shareAll[self] :
                                            v \notin Range(AsList(other_users))])
              /\ ret' = r.raised
    /\ UNCHANGED <<now, tokenVars, settingsId, files, fileUser, pwVars>>

HasGeneralReadPermission ==
    /\ \E self \in Users, other_user \in Users :
          /\ op' = Call("has_general_read_permission", self, other_user)
          /\ ret' = IF settingsId[self] = None THEN "AttributeError"
                    ELSE has_general_read_permission(shareAll[self], other_user)
    /\ UNCHANGED <<now, tokenVars, userVars, pwVars>>

GetMedia ==
    /\ \E self \in Users :
          \E user_shared \in Orders(SharedWith(self)) :
             LET fs == get_media(files, self, user_shared)
             IN  /\ Len(fs[self]) <= MaxMediaLen
                 /\ files' = fs
                 /\ op' = Call("get_media", self, None)
                 /\ ret' = fs[self]
    /\ UNCHANGED <<now, tokenVars, settingsId, shareAll, fileUser, pwVars>>

(* ------------------------------ /api/token ---------------------------- *)

\* the status codes of the token route
HTTP_200_OK == 200
HTTP_401_UNAUTHORIZED == 401

\* the Basic-auth check of the route: the user exists and the password matches
verify_password(username, password) ==
    /\ username \in Users
    /\ password_hash[username] # <<>>
    /\ check_password(password_hash[username], password)

\* POST /api/token: with valid credentials a token is created and returned
PostToken ==
    /\ Len(tokens) < MaxTokens
    /\ \E username \in Users \cup {None}, password \in Passwords,
          urandom \in TokenStrings :
          /\ op' = Call("post_token", username, password)
          /\ IF verify_password(username, password)
             THEN /\ tokens' = Append(tokens,
                                  create_token(DefaultExpiresIn, now, urandom))
                  /\ issued' = Append(issued,
                                  [at |-> now, expires_in |-> DefaultExpiresIn])
                  /\ ret' = [status |-> HTTP_200_OK, token |-> Len(tokens) + 1]
             ELSE /\ UNCHANGED <<tokens, issued>>
                  /\ ret' = [status |-> HTTP_401_UNAUTHORIZED, token |-> None]
    /\ UNCHANGED <<now, revoked, userVars, pwVars>>

(* --------------------------- specifications --------------------------- *)

\* the users, their settings rows and their files as registration and upload
\* leave them: settings rows are numbered in the order they were created,
\* which need not be the order of the users; every file is in the collection
\* of the user its File.user column names
RECURSIVE FilesOf(_, _, _)
FilesOf(fu, u, f) ==
    IF f > NumFiles THEN <<>>
    ELSE (IF fu[f] = u THEN <<f>> ELSE <<>>) \o FilesOf(fu, u, f + 1)

SettingsIds ==
    {sid \in [Users -> 0..NumUsers] :
        \E k \in 0..NumUsers :
           /\ {sid[u] : u \in Users} \ {None} = 1..k
           /\ Cardinality({u \in Users : sid[u] # None}) = k}

InitQuiet ==
    /\ now = 0
    /\ tokens = <<>>
    /\ issued = <<>>
    /\ revoked = {}
    /\ password_hash = [u \in Users |-> <<>>]
    /\ plain = [u \in Users |-> <<>>]
    /\ op = Call("init", None, None)
    /\ ret = None

InitUsers ==
    /\ settingsId \in SettingsIds
    /\ shareAll = [u \in Users |-> {}]
    /\ fileUser \in [Files -> Users]
    /\ files = [u \in Users |-> FilesOf(fileUser, u, 1)]

Init == InitQuiet /\ InitUsers

\* the token model on its own: no users are involved in create/check/revoke
InitToken ==
    /\ InitQuiet
    /\ settingsId = [u \in Users |-> None]
    /\ shareAll = [u \in Users |-> {}]
    /\ fileUser = [f \in Files |-> 1]
    /\ files = [u \in Users |-> FilesOf(fileUser, u, 1)]

NextToken == CreateToken \/ Check \/ Revoke \/ Tick
SpecToken == InitToken /\ [][NextToken]_vars

\* sharing on its own: the files play no part in share_all_with
InitShare ==
    /\ InitQuiet
    /\ settingsId \in SettingsIds
    /\ shareAll = [u \in Users |-> {}]
    /\ fileUser = [f \in Files |-> 1]
    /\ files = [u \in Users |-> FilesOf(fileUser, u, 1)]

NextShare == ShareAllWith
SpecShare == InitShare /\ [][NextShare]_vars

NextUser == ShareAllWith \/ HasGeneralReadPermission \/ GetMedia
SpecUser == Init /\ [][NextUser]_vars

NextPassword == SetPassword \/ CheckPassword
SpecPassword == InitToken /\ [][NextPassword]_vars

\* the token route: a request arrives at some time, every user is either not
\* registered with a password yet or registered with one set by set_password
Times == {t \in 0..(MaxTicks * DefaultExpiresIn + MaxTicks) : Ticks(t) <= MaxTicks}

InitApi ==
    /\ now \in {t \in Times : t % DefaultExpiresIn = 0}
    /\ tokens = <<>>
    /\ issued = <<>>
    /\ revoked = {}
    /\ \E password \in Passwords, salt \in Salts :
          \E registered \in SUBSET Users :
             /\ plain = [u \in Users |->
                            IF u \in registered THEN password ELSE <<>>]
             /\ password_hash = [u \in Users |->
                            IF u \in registered
                            THEN set_password(password, salt) ELSE <<>>]
    /\ op = Call("init", None, None)
    /\ ret = None
    /\ settingsId = [u \in Users |-> None]
    /\ shareAll = [u \in Users |-> {}]
    /\ fileUser = [f \in Files |-> 1]
    /\ files = [u \in Users |-> FilesOf(fileUser, u, 1)]

NextApi == PostToken \/ Check
SpecApi == InitApi /\ [][NextApi]_vars

Next == NextToken \/ NextUser \/ NextPassword \/ PostToken
Spec == Init /\ [][Next]_vars

(* ------------------------------- claims ------------------------------- *)

\* the token the create_token call of this state made
Fresh == tokens[op.self]

\* the time the token was made to expire at when it was created
Deadline(id) == issued[id].at + issued[id].expires_in

\* C1 as stated: every token create_token returns is valid at the moment of
\* its creation, whatever expires_in is, and is invalid at every time later
\* than its creation time plus expires_in.
C1_FreshValidThenExpired ==
    /\ op.name = "create_token" => check(Fresh, now)
    /\ \A id \in TokenIds : now > Deadline(id) => ~check(tokens[id], now)

\* C1 amended: a token created with expires_in of at least one second is
\* valid at the moment of its creation; every token, whatever expires_in is,
\* is invalid at every time later than its creation time plus expires_in.
C1_PositiveFreshValidThenExpired ==
    /\ (op.name = "create_token" /\ op.arg >= 1) => check(Fresh, now)
    /\ \A id \in TokenIds : now > Deadline(id) => ~check(tokens[id], now)

\* a token has just been created valid while another one, never revoked, has
\* run past its deadline
C1_Witness ==
    /\ op.name = "create_token"
    /\ op.arg >= 1
    /\ check(Fresh, now)
    /\ \E id \in TokenIds \ revoked :
          issued[id].expires_in >= 1 /\ now > Deadline(id)

\* C2: after revoke() has been called on a token, check() on it is false in
\* the same instant and at every later time, whatever is called afterwards.
C2_RevokedStaysInvalid ==
    \A id \in revoked : ~check(tokens[id], now)

\* a token revoked before its deadline, with the clock moved on since
C2_Witness ==
    /\ op.name = "tick"
    /\ \E id \in revoked : tokens[id].expiration < now /\ now < Deadline(id)

\* C6: check() returns true exactly when the expiration is strictly later
\* than the current time, and revoke() sets the expiration to the current
\* time and leaves the token string, the user and every other token alone.
C6_ValidityIsFutureExpiration ==
    /\ [](op.name = "check" => ret = (tokens[op.self].expiration > now))
    /\ [][\A id \in TokenIds :
            (op'.name = "revoke" /\ op'.self = id) =>
               /\ tokens'[id].expiration = now
               /\ tokens'[id].token = tokens[id].token
               /\ tokens'[id].user = tokens[id].user
               /\ \A other \in TokenIds \ {id} : tokens'[other] = tokens[other]
               /\ Len(tokens') = Len(tokens)]_vars

\* check() has answered false for a revoked token whose expiration is the
\* current time
C6_Witness ==
    /\ op.name = "check"
    /\ op.self \in revoked
    /\ tokens[op.self].expiration = now
    /\ ret = FALSE

\* C10: once check() is false for a token it is false at every later time,
\* after any create_token, check or revoke on that or any other token.
C10_InvalidStaysInvalid ==
    [][\A id \in TokenIds :
          ~check(tokens[id], now) => ~check(tokens'[id], now')]_vars

\* a token that ran past its deadline was revoked afterwards, which moved its
\* expiration forward, and a second token exists
C10_Witness ==
    /\ Len(tokens) >= 2
    /\ \E id \in revoked :
          /\ Deadline(id) < tokens[id].expiration
          /\ ~check(tokens[id], now)

\* C3: after share_all_with(S) returns on a user with settings, the users
\* with general read permission on the sharer are exactly the users of S.
C3_SharedWithExactlyTheNewSet ==
    (op.name = "share_all_with" /\ ret = "") =>
       \A v \in Users :
          has_general_read_permission(shareAll[op.self], v) <=> v \in op.arg.users

\* share_all_with has returned after granting to a non-empty set and revoking
\* a user that was shared with before
C3_Witness ==
    /\ op.name = "share_all_with"
    /\ ret = ""
    /\ op.arg.users # {}
    /\ op.arg.revokes

\* C5: share_all_with on a user without settings raises AttributeError for
\* every argument and changes no sharing relation.
C5_NoSettingsRaises ==
    [][\A self \in Users :
          (op'.name = "share_all_with" /\ op'.self = self
             /\ settingsId[self] = None) =>
                (ret' = "AttributeError" /\ shareAll' = shareAll)]_vars

\* the call has raised on a user without settings while another user shares
C5_Witness ==
    /\ op.name = "share_all_with"
    /\ settingsId[op.self] = None
    /\ ret = "AttributeError"
    /\ op.arg.users # {}
    /\ \E v \in Users : shareAll[v] # {}

\* the files a user is entitled to see: its own and those of every user whose
\* settings share all with it
Entitled(self) ==
    {f \in Files : fileUser[f] = self \/ fileUser[f] \in SharedWith(self)}

\* C4: get_media() on u returns exactly the files owned by u together with
\* the files owned by each user whose share_all contains u.
C4_MediaIsOwnPlusShared ==
    op.name = "get_media" => Range(ret) = Entitled(op.self)

\* C9: get_media() leaves every files collection and every sharing relation
\* as it was.
C9_GetMediaIsPureRead ==
    [][op'.name = "get_media" =>
          (files' = files /\ shareAll' = shareAll /\ settingsId' = settingsId
             /\ fileUser' = fileUser)]_vars

\* C7: the stored hash is never the plaintext last set, check_password
\* accepts that plaintext and rejects every other password, the ones set
\* earlier included.
C7_HashedRoundTrip ==
    /\ \A u \in Users :
          plain[u] # <<>> =>
             /\ password_hash[u] # plain[u]
             /\ check_password(password_hash[u], plain[u])
             /\ \A q \in Passwords \ {plain[u]} :
                   ~check_password(password_hash[u], q)
    /\ (op.name = "check_password" /\ plain[op.self] # <<>>) =>
          ret = (op.arg = plain[op.self])
    /\ (op.name = "set_password" /\ op.arg.previous # op.arg.password
          /\ op.arg.previous # <<>>) =>
          ~check_password(password_hash[op.self], op.arg.previous)

\* a password has been overwritten by a different one
C7_Witness ==
    /\ op.name = "set_password"
    /\ op.arg.previous # <<>>
    /\ op.arg.previous # op.arg.password
    /\ \E u \in Users \ {op.self} : plain[u] # <<>>

\* C8: a token request with the credentials of an existing user and the
\* right password is answered with 200 and the token it issues is valid at
\* the time of the response.
C8_ValidCredentialsGetValidToken ==
    (op.name = "post_token" /\ op.self \in Users /\ plain[op.self] # <<>>
       /\ op.arg = plain[op.self]) =>
          (ret.status = HTTP_200_OK /\ check(tokens[ret.token], now))

\* a request with valid credentials has been answered, at a time after the
\* start of the clock
C8_Witness ==
    /\ op.name = "post_token"
    /\ op.self \in Users
    /\ op.arg = plain[op.self]
    /\ ret.status = HTTP_200_OK
    /\ now > 0

====
